---- MODULE Spec2Model ----
(***************************************************************************)
(* Document lifecycle and analysis pipeline of lyra-mvp (Convex backend).  *)
(*                                                                         *)
(* Tables of convex/schema.ts are the variables practices,                 *)
(* practiceMembers, documents and analyses; storage is the set of blobs    *)
(* held by Convex file storage; jobs is the list of functions scheduled    *)
(* with ctx.scheduler.runAfter, each with the position of its              *)
(* analyzeDocument handler.  Every public mutation is one atomic action    *)
(* (a Convex mutation is a serializable transaction: a throw discards all  *)
(* of its writes and its scheduled functions).  The internalAction         *)
(* analyzeDocument is not atomic: each ctx.runMutation it issues and the   *)
(* external generateObject call are separate steps.                        *)
(*                                                                         *)
(* Abstractions: createdAt/updatedAt timestamps and the createdBy column   *)
(* only record Date.now() and are never read by backend code; they are     *)
(* left out.  Row ids are allocated from counters and never reused.        *)
(***************************************************************************)
EXTENDS Integers, Sequences, FiniteSets, TLC

\* ------------------------------------------------------------------ bounds
MaxDocs == 1
MaxAnalyses == 2
MaxBlobs == 1

\* ------------------------------------------------------- identities, data
NoUser == "unauthenticated"
Users == {"u1", "u2"}
Callers == Users \cup {NoUser}

\* An email is kept as <<its first five characters, the rest>>.
Email(u) == IF u = "u1" THEN <<"ann@c", "linic.test">> ELSE <<"temp-", "7f3a@guest.test">>

\* user.email?.startsWith("temp-") || user.email?.startsWith("temp@")
isAnonymous(u) == Email(u)[1] = "temp-" \/ Email(u)[1] = "temp@"

practiceName(u) ==
    IF isAnonymous(u) THEN "Guest Practice"
    ELSE Email(u)[1] \o Email(u)[2] \o "'s Practice"

\* A content type is kept as <<type, subtype>>; the string the code sees is
\* type/subtype.
ContentTypes == {<<"application", "pdf">>, <<"image", "png">>, <<"image", "tiff">>,
                 <<"text", "plain">>}
MimeString(ct) == ct[1] \o "/" \o ct[2]

Absent == "<absent>"
NoError == "<ok>"

Reports == {"reportA", "reportB"}
\* outcomes of generateObject: a report, a thrown Error with a message, or a
\* thrown value that is not an Error
ModelFailures == {[isError |-> TRUE, message |-> "provider failure"],
                  [isError |-> FALSE, message |-> Absent]}

DocIds == 1..MaxDocs
AnalysisIds == 1..MaxAnalyses
StorageIds == 1..MaxBlobs

VARIABLES
    practices,        \* practice id -> [name, ownerId]
    practiceMembers,  \* sequence of [practiceId, userId, role], creation order
    documents,        \* document id -> row
    analyses,         \* analysis id -> row
    storage,          \* storage ids whose blob exists
    docCount,         \* documents ever inserted
    analysisCount,    \* analyses ever inserted
    blobCount,        \* blobs ever uploaded
    jobs,             \* scheduled analyzeDocument runs, in scheduling order
    lastOp            \* the last client call: [op, caller, arg, error, value, rows]

store == <<practices, practiceMembers, documents, analyses, storage,
           docCount, analysisCount, blobCount, jobs>>
vars == <<practices, practiceMembers, documents, analyses, storage,
          docCount, analysisCount, blobCount, jobs, lastOp>>

\* ------------------------------------------------------------- helpers
\* error is the message of the Error the call threw (NoError when it
\* returned), value the id it returned (0 when it returned none), rows the
\* ids of the rows a list query returned, in order
Call(op, caller, arg, error, value) ==
    [op |-> op, caller |-> caller, arg |-> arg, error |-> error, value |-> value,
     rows |-> <<>>]
Threw(op, caller, arg, error) == Call(op, caller, arg, error, 0)
Returned(op, caller, arg, value) == Call(op, caller, arg, NoError, value)
ReturnedRows(op, caller, arg, rows) ==
    [op |-> op, caller |-> caller, arg |-> arg, error |-> NoError, value |-> 0,
     rows |-> rows]

\* authComponent.safeGetAuthUser(ctx) returns a user
AuthenticatedAlways(u) == TRUE
Authenticated(u) == u \in Users

\* A Convex mutation is a transaction: when the handler throws, none of its
\* writes (nor its scheduled functions) take effect.
CommittedNoRollback(threw, before, after) == after
Committed(threw, before, after) == IF threw THEN before ELSE after

\* .withIndex("by_user", q => q.eq("userId", userId)).first()
MembershipRows(userId) ==
    {i \in 1..Len(practiceMembers) : practiceMembers[i].userId = userId}
HasMembershipNever(userId) == FALSE
HasMembership(userId) == MembershipRows(userId) # {}
MembershipOfFirstRow(userId) == practiceMembers[1]
MembershipOf(userId) ==
    LET idx == MembershipRows(userId)
    IN  practiceMembers[CHOOSE i \in idx : \A j \in idx : i <= j]

\* .withIndex("by_practice_and_user", ...).first() is non-null
HasAccessAnyPractice(practiceId, userId) ==
    \E i \in 1..Len(practiceMembers) : practiceMembers[i].userId = userId
HasAccess(practiceId, userId) ==
    \E i \in 1..Len(practiceMembers) :
        /\ practiceMembers[i].practiceId = practiceId
        /\ practiceMembers[i].userId = userId

\* .withIndex("by_document", q => q.eq("documentId", d)).collect()
AnalysesOfNone(d) == {}
AnalysesOf(d) == {a \in DOMAIN analyses : analyses[a].documentId = d}

RemoveNothing(f, S) == f
Remove(f, S) == [x \in DOMAIN f \ S |-> f[x]]
InsertOverAll(f, k, row) == [x \in DOMAIN f \cup {k} |-> row]
Insert(f, k, row) == [x \in DOMAIN f \cup {k} |-> IF x = k THEN row ELSE f[x]]

\* .order("desc").collect() over a set of row ids: newest (largest id) first
RECURSIVE Desc(_)
Desc(S) ==
    IF S = {} THEN <<>>
    ELSE LET m == CHOOSE x \in S : \A y \in S : y <= x
         IN  <<m>> \o Desc(S \ {m})

\* .withIndex("by_practice", q => q.eq("practiceId", p))
AllDocuments(practiceId) == DOMAIN documents
DocumentsOfPractice(practiceId) ==
    {d \in DOMAIN documents : documents[d].practiceId = practiceId}

\* ctx.storage.getUrl(storageId): null when the blob is gone
UrlResolvesNever(storageId) == FALSE
UrlResolves(storageId) == storageId \in storage
getUrl(storageId) == <<"url", storageId>>

\* ------------------------------------------------------------------ Init
Init ==
    /\ practices = <<>>
    /\ practiceMembers = <<>>
    /\ documents = <<>>
    /\ analyses = <<>>
    /\ storage = {}
    /\ docCount = 0
    /\ analysisCount = 0
    /\ blobCount = 0
    /\ jobs = <<>>
    /\ lastOp = Returned("init", NoUser, 0, 0)

\* ---------------------------------------------------------- practices.ts
getOrCreatePracticeWithoutMembership(u) ==
    /\ Authenticated(u)
    /\ ~HasMembership(u)
    /\ practices' = Append(practices, [name |-> practiceName(u), ownerId |-> u])
    /\ lastOp' = Returned("getOrCreatePractice", u, 0, Len(practices) + 1)
    /\ UNCHANGED <<practiceMembers, documents, analyses, storage, docCount,
                   analysisCount, blobCount, jobs>>
getOrCreatePractice(u) ==
    LET practiceId == Len(practices) + 1
    IN
    IF ~Authenticated(u) THEN
        /\ lastOp' = Threw("getOrCreatePractice", u, 0, "Not authenticated")
        /\ UNCHANGED store
    ELSE IF HasMembership(u) THEN
        /\ lastOp' = IF MembershipOf(u).practiceId \in DOMAIN practices
                     THEN Returned("getOrCreatePractice", u, 0, MembershipOf(u).practiceId)
                     ELSE Threw("getOrCreatePractice", u, 0, "Practice not found")
        /\ UNCHANGED store
    ELSE
        /\ practices' = Append(practices, [name |-> practiceName(u), ownerId |-> u])
        /\ practiceMembers' = Append(practiceMembers,
               [practiceId |-> practiceId, userId |-> u, role |-> "owner"])
        /\ lastOp' = Returned("getOrCreatePractice", u, 0, practiceId)
        /\ UNCHANGED <<documents, analyses, storage, docCount, analysisCount,
                       blobCount, jobs>>

\* a query: null (value 0) without identity, without membership, or when
\* the membership's practice row is gone
getCurrentPractice(u) ==
    /\ lastOp' = IF ~Authenticated(u) THEN Returned("getCurrentPractice", u, 0, 0)
                 ELSE IF ~HasMembership(u) THEN Returned("getCurrentPractice", u, 0, 0)
                 ELSE IF MembershipOf(u).practiceId \in DOMAIN practices
                      THEN Returned("getCurrentPractice", u, 0, MembershipOf(u).practiceId)
                 ELSE Returned("getCurrentPractice", u, 0, 0)
    /\ UNCHANGED store

\* ---------------------------------------------------------- documents.ts
\* generateUploadUrl followed by the client's POST of the file to that URL
\* (document-uploader.tsx), which stores a new blob.
generateUploadUrl(u) ==
    IF ~Authenticated(u) THEN
        /\ lastOp' = Threw("generateUploadUrl", u, 0, "Not authenticated")
        /\ UNCHANGED store
    ELSE
        /\ blobCount < MaxBlobs
        /\ blobCount' = blobCount + 1
        /\ storage' = storage \cup {blobCount + 1}
        /\ lastOp' = Returned("generateUploadUrl", u, 0, blobCount + 1)
        /\ UNCHANGED <<practices, practiceMembers, documents, analyses,
                       docCount, analysisCount, jobs>>

createDocument(u, storageId, contentType) ==
    LET documentId == docCount + 1
    IN
    IF ~Authenticated(u) THEN
        /\ lastOp' = Threw("createDocument", u, storageId, "Not authenticated")
        /\ UNCHANGED store
    ELSE IF ~HasMembership(u) THEN
        /\ lastOp' = Threw("createDocument", u, storageId, "User is not a member of any practice")
        /\ UNCHANGED store
    ELSE
        /\ docCount < MaxDocs
        /\ documents' = Insert(documents, documentId,
               [practiceId |-> MembershipOf(u).practiceId,
                storageId |-> storageId,
                filename |-> "plan",
                contentType |-> contentType,
                sizeBytes |-> 2048,
                status |-> "uploaded",
                uploadedBy |-> u])
        /\ docCount' = documentId
        /\ lastOp' = Returned("createDocument", u, storageId, documentId)
        /\ UNCHANGED <<practices, practiceMembers, analyses, storage,
                       analysisCount, blobCount, jobs>>

\* ctx.storage.delete of a storage id whose blob is already gone: the file
\* storage may reject it (the mutation then aborts) or accept it.
StorageDeleteOutcomesAlwaysFail(storageId) == {"storage delete failed"}
StorageDeleteOutcomes(storageId) ==
    IF storageId \in storage THEN {NoError} ELSE {NoError, "storage delete failed"}

deleteDocument(u, d) ==
    IF ~Authenticated(u) THEN
        /\ lastOp' = Threw("deleteDocument", u, d, "Not authenticated")
        /\ UNCHANGED store
    ELSE IF d \notin DOMAIN documents THEN
        /\ lastOp' = Threw("deleteDocument", u, d, "Document not found")
        /\ UNCHANGED store
    ELSE IF ~HasAccess(documents[d].practiceId, u) THEN
        /\ lastOp' = Threw("deleteDocument", u, d, "Access denied to this practice")
        /\ UNCHANGED store
    ELSE
        \E err \in StorageDeleteOutcomes(documents[d].storageId) :
            /\ analyses' = Committed(err # NoError, analyses, Remove(analyses, AnalysesOf(d)))
            /\ storage' = Committed(err # NoError, storage, storage \ {documents[d].storageId})
            /\ documents' = Committed(err # NoError, documents, Remove(documents, {d}))
            /\ lastOp' = Threw("deleteDocument", u, d, err)
            /\ UNCHANGED <<practices, practiceMembers, docCount, analysisCount,
                           blobCount, jobs>>

listDocuments(u) ==
    /\ lastOp' = IF ~Authenticated(u) THEN ReturnedRows("listDocuments", u, 0, <<>>)
                 ELSE IF ~HasMembership(u) THEN ReturnedRows("listDocuments", u, 0, <<>>)
                 ELSE ReturnedRows("listDocuments", u, 0,
                                   Desc(DocumentsOfPractice(MembershipOf(u).practiceId)))
    /\ UNCHANGED store

getDocument(u, d) ==
    /\ lastOp' = IF ~Authenticated(u) THEN Threw("getDocument", u, d, "Not authenticated")
                 ELSE IF d \notin DOMAIN documents
                      THEN Threw("getDocument", u, d, "Document not found")
                 ELSE IF ~HasAccess(documents[d].practiceId, u)
                      THEN Threw("getDocument", u, d, "Access denied to this practice")
                 ELSE Returned("getDocument", u, d, d)
    /\ UNCHANGED store

\* ----------------------------------------------------------- analyses.ts
ScheduledJobStaleId(analysisId, documentUrl, contentType) ==
    [analysisId |-> analysisCount, documentUrl |-> documentUrl,
     contentType |-> contentType, pc |-> "scheduled",
     calls |-> 0, mediaType |-> Absent, outcome |-> Absent, missed |-> FALSE]
ScheduledJob(analysisId, documentUrl, contentType) ==
    [analysisId |-> analysisId, documentUrl |-> documentUrl,
     contentType |-> contentType, pc |-> "scheduled",
     calls |-> 0, mediaType |-> Absent, outcome |-> Absent, missed |-> FALSE]

NewAnalysisProcessing(d) ==
    [documentId |-> d, practiceId |-> documents[d].practiceId,
     status |-> "processing", report |-> Absent, errorMessage |-> Absent]
NewAnalysisFirstPractice(d) ==
    [documentId |-> d, practiceId |-> 1,
     status |-> "queued", report |-> Absent, errorMessage |-> Absent]
NewAnalysis(d) ==
    [documentId |-> d, practiceId |-> documents[d].practiceId,
     status |-> "queued", report |-> Absent, errorMessage |-> Absent]

runLyra(u, d) ==
    LET analysisId == analysisCount + 1
    IN
    IF ~Authenticated(u) THEN
        /\ lastOp' = Threw("runLyra", u, d, "Not authenticated")
        /\ UNCHANGED store
    ELSE IF d \notin DOMAIN documents THEN
        /\ lastOp' = Threw("runLyra", u, d, "Document not found")
        /\ UNCHANGED store
    ELSE IF ~HasAccess(documents[d].practiceId, u) THEN
        /\ lastOp' = Threw("runLyra", u, d, "Access denied to this practice")
        /\ UNCHANGED store
    ELSE
        LET threw == ~UrlResolves(documents[d].storageId)
        IN
        /\ analysisCount < MaxAnalyses
        \* lines 39-51: insert the analysis, patch the document
        /\ analyses' = Committed(threw, analyses, Insert(analyses, analysisId, NewAnalysis(d)))
        /\ documents' = Committed(threw, documents, [documents EXCEPT ![d].status = "queued"])
        /\ analysisCount' = Committed(threw, analysisCount, analysisId)
        \* lines 53-62: resolve the URL, schedule the extraction
        /\ jobs' = IF threw THEN jobs
                   ELSE Append(jobs, ScheduledJob(analysisId,
                            getUrl(documents[d].storageId), documents[d].contentType))
        /\ lastOp' = IF threw THEN Threw("runLyra", u, d, "Could not get document URL")
                     ELSE Returned("runLyra", u, d, analysisId)
        /\ UNCHANGED <<practices, practiceMembers, storage, docCount, blobCount>>

listAnalyses(u, d) ==
    /\ lastOp' = IF ~Authenticated(u) THEN ReturnedRows("listAnalyses", u, d, <<>>)
                 ELSE IF d \notin DOMAIN documents
                      THEN ReturnedRows("listAnalyses", u, d, <<>>)
                 ELSE IF ~HasAccess(documents[d].practiceId, u)
                      THEN Threw("listAnalyses", u, d, "Access denied to this practice")
                 ELSE ReturnedRows("listAnalyses", u, d, Desc(AnalysesOf(d)))
    /\ UNCHANGED store

getAnalysis(u, a) ==
    /\ lastOp' = IF ~Authenticated(u) THEN Threw("getAnalysis", u, a, "Not authenticated")
                 ELSE IF a \notin DOMAIN analyses
                      THEN Threw("getAnalysis", u, a, "Analysis not found")
                 ELSE IF ~HasAccess(analyses[a].practiceId, u)
                      THEN Threw("getAnalysis", u, a, "Access denied to this practice")
                 ELSE Returned("getAnalysis", u, a, a)
    /\ UNCHANGED store

\* -------------------------------------------------------------- lyra.ts
\* ctx.db.patch of a document id whose row is gone throws
PatchThrowsOnMissing(a) ==
    a \notin DOMAIN analyses \/ analyses[a].documentId \notin DOMAIN documents
PatchThrows(a) == a \in DOMAIN analyses /\ analyses[a].documentId \notin DOMAIN documents

PatchDocumentRenames(a, status) ==
    [documents EXCEPT ![analyses[a].documentId].status = status,
                      ![analyses[a].documentId].filename = status]
PatchDocumentResetsOnError(a, status) ==
    [documents EXCEPT ![analyses[a].documentId].status =
                          IF status = "error" THEN "uploaded" ELSE status]
PatchDocumentKeepsStatus(a, status) == documents
PatchDocument(a, status) ==
    [documents EXCEPT ![analyses[a].documentId].status = status]

\* variants: the document is patched but the analysis is not; every analysis
\* of the document is patched instead of the one named
updateAnalysisStatusDocOnly(a, status) ==
    IF a \notin DOMAIN analyses THEN UNCHANGED <<analyses, documents>>
    ELSE
        /\ analyses' = analyses
        /\ documents' = Committed(PatchThrows(a), documents, PatchDocument(a, status))
updateAnalysisStatusByDocument(a, status) ==
    IF a \notin DOMAIN analyses THEN UNCHANGED <<analyses, documents>>
    ELSE
        /\ analyses' = [b \in DOMAIN analyses |->
                           IF analyses[b].documentId = analyses[a].documentId
                           THEN [analyses[b] EXCEPT !.status = status]
                           ELSE analyses[b]]
        /\ documents' = Committed(PatchThrows(a), documents, PatchDocument(a, status))
updateAnalysisStatus(a, status) ==
    IF a \notin DOMAIN analyses THEN UNCHANGED <<analyses, documents>>
    ELSE
        /\ analyses' = Committed(PatchThrows(a), analyses,
                                 [analyses EXCEPT ![a].status = status])
        /\ documents' = Committed(PatchThrows(a), documents, PatchDocument(a, status))

completeAnalysisNoReport(a, report) ==
    IF a \notin DOMAIN analyses THEN UNCHANGED <<analyses, documents>>
    ELSE
        /\ analyses' = Committed(PatchThrows(a), analyses,
               [analyses EXCEPT ![a].status = "complete"])
        /\ documents' = Committed(PatchThrows(a), documents, PatchDocument(a, "complete"))
completeAnalysis(a, report) ==
    IF a \notin DOMAIN analyses THEN UNCHANGED <<analyses, documents>>
    ELSE
        /\ analyses' = Committed(PatchThrows(a), analyses,
               [analyses EXCEPT ![a].status = "complete", ![a].report = report])
        /\ documents' = Committed(PatchThrows(a), documents, PatchDocument(a, "complete"))

failAnalysisNoop(a, errorMessage) == UNCHANGED <<analyses, documents>>
failAnalysisDeletesRow(a, errorMessage) ==
    IF a \notin DOMAIN analyses THEN UNCHANGED <<analyses, documents>>
    ELSE
        /\ analyses' = Remove(analyses, {a})
        /\ documents' = Committed(PatchThrows(a), documents, PatchDocument(a, "error"))
failAnalysis(a, errorMessage) ==
    IF a \notin DOMAIN analyses THEN UNCHANGED <<analyses, documents>>
    ELSE
        /\ analyses' = Committed(PatchThrows(a), analyses,
               [analyses EXCEPT ![a].status = "error", ![a].errorMessage = errorMessage])
        /\ documents' = Committed(PatchThrows(a), documents, PatchDocument(a, "error"))

\* analyzeDocument, lines 173-180
isImage(contentType) == contentType[1] = "image"
isPdf(contentType) == MimeString(contentType) = "application/pdf"
mediaTypePassThrough(contentType) == MimeString(contentType)
mediaTypeOf(contentType) ==
    IF isImage(contentType) THEN MimeString(contentType)
    ELSE IF isPdf(contentType) THEN "application/pdf"
    ELSE Absent

\* line 220
CaughtMessageOfAny(failure) == failure.message
CaughtMessage(failure) ==
    IF failure.isError THEN failure.message ELSE "Unknown error occurred"

JobIds == 1..Len(jobs)

\* the internal mutation finds no row and returns at its first line (kept in
\* the job's missed field, a history field the code does not have)
Missed(a) == a \notin DOMAIN analyses

JobUnchanged == UNCHANGED <<practices, practiceMembers, storage, docCount,
                            analysisCount, blobCount, lastOp>>

\* lines 167-170: the first runMutation, outside the try block
JobStart(j) ==
    /\ j \in JobIds
    /\ jobs[j].pc = "scheduled"
    /\ updateAnalysisStatus(jobs[j].analysisId, "processing")
    /\ jobs' = [jobs EXCEPT ![j].pc =
                   IF PatchThrows(jobs[j].analysisId) THEN "crashed" ELSE "started",
                             ![j].missed = @ \/ Missed(jobs[j].analysisId)]
    /\ JobUnchanged

\* lines 173-186: classify the content type, then either throw or submit the
\* request to generateObject
JobSubmit(j) ==
    /\ j \in JobIds
    /\ jobs[j].pc = "started"
    /\ jobs' = IF mediaTypeOf(jobs[j].contentType) = Absent
               THEN [jobs EXCEPT ![j].pc = "failing",
                                 ![j].outcome = "Unsupported content type: "
                                                  \o MimeString(jobs[j].contentType)]
               ELSE [jobs EXCEPT ![j].pc = "calling",
                                 ![j].calls = @ + 1,
                                 ![j].mediaType = mediaTypeOf(jobs[j].contentType)]
    /\ UNCHANGED <<analyses, documents>>
    /\ JobUnchanged

\* generateObject resolves with a report
ModelReturns(j, report) ==
    /\ j \in JobIds
    /\ jobs[j].pc = "calling"
    /\ jobs' = [jobs EXCEPT ![j].pc = "completing", ![j].outcome = report]
    /\ UNCHANGED <<analyses, documents>>
    /\ JobUnchanged

\* generateObject rejects; line 219-220 catch it
ModelFails(j, failure) ==
    /\ j \in JobIds
    /\ jobs[j].pc = "calling"
    /\ jobs' = [jobs EXCEPT ![j].pc = "failing", ![j].outcome = CaughtMessage(failure)]
    /\ UNCHANGED <<analyses, documents>>
    /\ JobUnchanged

\* lines 215-218; a throw of the mutation lands in the catch block
JobComplete(j) ==
    /\ j \in JobIds
    /\ jobs[j].pc = "completing"
    /\ completeAnalysis(jobs[j].analysisId, jobs[j].outcome)
    /\ jobs' = IF PatchThrows(jobs[j].analysisId)
               THEN [jobs EXCEPT ![j].pc = "failing", ![j].outcome = "patch of missing document"]
               ELSE [jobs EXCEPT ![j].pc = "done", ![j].outcome = Absent,
                                 ![j].missed = @ \/ Missed(jobs[j].analysisId)]
    /\ JobUnchanged

\* lines 221-224; a throw here leaves the action
JobFail(j) ==
    /\ j \in JobIds
    /\ jobs[j].pc = "failing"
    /\ failAnalysis(jobs[j].analysisId, jobs[j].outcome)
    /\ jobs' = [jobs EXCEPT ![j].outcome = Absent, ![j].pc =
                   IF PatchThrows(jobs[j].analysisId) THEN "crashed" ELSE "done",
                             ![j].missed = @ \/ Missed(jobs[j].analysisId)]
    /\ JobUnchanged

\* ------------------------------------------------------------ behaviours
Next ==
    \/ \E u \in Callers : getOrCreatePractice(u)
    \/ \E u \in Callers : generateUploadUrl(u)
    \/ \E u \in Callers, s \in StorageIds, ct \in ContentTypes : createDocument(u, s, ct)
    \/ \E u \in Callers, d \in DocIds : deleteDocument(u, d)
    \/ \E u \in Callers, d \in DocIds : runLyra(u, d)
    \/ \E j \in JobIds : JobStart(j)
    \/ \E j \in JobIds : JobSubmit(j)
    \/ \E j \in JobIds, r \in Reports : ModelReturns(j, r)
    \/ \E j \in JobIds, f \in ModelFailures : ModelFails(j, f)
    \/ \E j \in JobIds : JobComplete(j)
    \/ \E j \in JobIds : JobFail(j)

Spec == Init /\ [][Next]_vars

\* the queries, which change no table
Queries ==
    \/ \E u \in Callers : listDocuments(u)
    \/ \E u \in Callers, d \in DocIds : getDocument(u, d)
    \/ \E u \in Callers, d \in DocIds : listAnalyses(u, d)
    \/ \E u \in Callers, a \in AnalysisIds : getAnalysis(u, a)
    \/ \E u \in Callers : getCurrentPractice(u)

NextWithQueries == Next \/ Queries

ReadSpec == Init /\ [][NextWithQueries]_vars

\* Scheduled functions run; generateObject returns.
Fairness ==
    \A j \in AnalysisIds :
        /\ WF_vars(JobStart(j))
        /\ WF_vars(JobSubmit(j))
        /\ WF_vars((\E r \in Reports : ModelReturns(j, r))
                   \/ (\E f \in ModelFailures : ModelFails(j, f)))
        /\ WF_vars(JobComplete(j))
        /\ WF_vars(JobFail(j))

FairSpec == Init /\ [][Next]_vars /\ Fairness

\* Two documents side by side.  The tables start as getOrCreatePractice by
\* u1 and by u2, two uploads and two createDocument calls leave them: the
\* first document is u1's, the second is uploaded by either user (and so
\* lies in that user's practice).  From there on: runLyra, deleteDocument
\* and the jobs' steps.
TwoDocIds == {1, 2}
UploadedDocument(u, storageId, contentType) ==
    [practiceId |-> IF u = "u1" THEN 1 ELSE 2,
     storageId |-> storageId,
     filename |-> "plan",
     contentType |-> contentType,
     sizeBytes |-> 2048,
     status |-> "uploaded",
     uploadedBy |-> u]
TwoDocumentsInit ==
    /\ practices = <<[name |-> practiceName("u1"), ownerId |-> "u1"],
                     [name |-> practiceName("u2"), ownerId |-> "u2"]>>
    /\ practiceMembers = <<[practiceId |-> 1, userId |-> "u1", role |-> "owner"],
                           [practiceId |-> 2, userId |-> "u2", role |-> "owner"]>>
    /\ \E u \in Users, ct \in {<<"application", "pdf">>, <<"text", "plain">>} :
          /\ documents = Insert(Insert(<<>>, 1,
                                 UploadedDocument("u1", 1, <<"application", "pdf">>)),
                                2, UploadedDocument(u, 2, ct))
          /\ lastOp = Returned("createDocument", u, 2, 2)
    /\ analyses = <<>>
    /\ storage = {1, 2}
    /\ docCount = 2
    /\ analysisCount = 0
    /\ blobCount = 2
    /\ jobs = <<>>

TwoDocumentsNext ==
    \/ \E u \in Callers, d \in TwoDocIds : runLyra(u, d)
    \/ \E u \in Callers, d \in TwoDocIds : deleteDocument(u, d)
    \/ \E j \in JobIds : JobStart(j)
    \/ \E j \in JobIds : JobSubmit(j)
    \/ \E j \in JobIds, r \in Reports : ModelReturns(j, r)
    \/ \E j \in JobIds, f \in ModelFailures : ModelFails(j, f)
    \/ \E j \in JobIds : JobComplete(j)
    \/ \E j \in JobIds : JobFail(j)

TwoDocumentsSpec == TwoDocumentsInit /\ [][TwoDocumentsNext]_vars

\* The documents list offers the Run button only for a document whose
\* status is uploaded or error (canRunLyra); a client that calls runLyra
\* only through that button, on the status the database holds:
canRunLyraAlways(status) == TRUE
canRunLyra(status) == status = "uploaded" \/ status = "error"

handleRunLyra(u, d) ==
    /\ d \in DOMAIN documents
    /\ canRunLyra(documents[d].status)
    /\ runLyra(u, d)

ButtonNext ==
    \/ \E u \in Callers : getOrCreatePractice(u)
    \/ \E u \in Callers : generateUploadUrl(u)
    \/ \E u \in Callers, s \in StorageIds, ct \in ContentTypes : createDocument(u, s, ct)
    \/ \E u \in Callers, d \in DocIds : deleteDocument(u, d)
    \/ \E u \in Callers, d \in DocIds : handleRunLyra(u, d)
    \/ \E j \in JobIds : JobStart(j)
    \/ \E j \in JobIds : JobSubmit(j)
    \/ \E j \in JobIds, r \in Reports : ModelReturns(j, r)
    \/ \E j \in JobIds, f \in ModelFailures : ModelFails(j, f)
    \/ \E j \in JobIds : JobComplete(j)
    \/ \E j \in JobIds : JobFail(j)

ButtonSpec == Init /\ [][ButtonNext]_vars

\* A client that calls runLyra on a document only while none of the
\* document's analyses is queued or processing (whatever the document's own
\* status says):
runLyraWhenIdle(u, d) ==
    /\ \A a \in AnalysesOf(d) : analyses[a].status \notin {"queued", "processing"}
    /\ runLyra(u, d)

IdleNext ==
    \/ \E u \in Callers : getOrCreatePractice(u)
    \/ \E u \in Callers : generateUploadUrl(u)
    \/ \E u \in Callers, s \in StorageIds, ct \in ContentTypes : createDocument(u, s, ct)
    \/ \E u \in Callers, d \in DocIds : deleteDocument(u, d)
    \/ \E u \in Callers, d \in DocIds : runLyraWhenIdle(u, d)
    \/ \E j \in JobIds : JobStart(j)
    \/ \E j \in JobIds : JobSubmit(j)
    \/ \E j \in JobIds, r \in Reports : ModelReturns(j, r)
    \/ \E j \in JobIds, f \in ModelFailures : ModelFails(j, f)
    \/ \E j \in JobIds : JobComplete(j)
    \/ \E j \in JobIds : JobFail(j)

IdleSpec == Init /\ [][IdleNext]_vars

\* --------------------------------------------------------------- claims
Terminal == {"complete", "error"}
LatestAnalysis(d) == CHOOSE a \in AnalysesOf(d) : \A b \in AnalysesOf(d) : b <= a
JobsOf(a) == {j \in JobIds : jobs[j].analysisId = a}
IsCall(op) == lastOp' # lastOp /\ lastOp'.op = op

\* C1: every document that has an analysis has the status of its most
\* recently created analysis.
DocumentMirrorsLatestAnalysis ==
    \A d \in DOMAIN documents :
        AnalysesOf(d) # {} => documents[d].status = analyses[LatestAnalysis(d)].status

\* C2: an analysis has a report iff it is complete and an errorMessage iff
\* it is in error.
ReportIffCompleteErrorIffError ==
    \A a \in DOMAIN analyses :
        /\ analyses[a].report # Absent <=> analyses[a].status = "complete"
        /\ analyses[a].errorMessage # Absent <=> analyses[a].status = "error"

CompleteAndErrorRows ==
    \E a, b \in DOMAIN analyses :
        /\ analyses[a].status = "complete" /\ analyses[a].report \in Reports
        /\ analyses[b].status = "error" /\ analyses[b].errorMessage # Absent

\* C3: once an analysis is complete or error, its status, report and
\* errorMessage stay as they are while the row exists; a new run inserts a
\* row under an id never used before.
TerminalIsAbsorbing ==
    [][/\ \A a \in DOMAIN analyses \cap DOMAIN analyses' :
             analyses[a].status \in Terminal =>
                 /\ analyses'[a].status = analyses[a].status
                 /\ analyses'[a].report = analyses[a].report
                 /\ analyses'[a].errorMessage = analyses[a].errorMessage
       /\ \A a \in DOMAIN analyses' \ DOMAIN analyses : a > analysisCount]_vars

RerunAfterTerminal ==
    \E a, b \in DOMAIN analyses :
        /\ a < b
        /\ analyses[a].documentId = analyses[b].documentId
        /\ analyses[a].status \in Terminal
        /\ analyses[b].status # "queued"

\* C4: a status change of an analysis row is queued -> processing,
\* processing -> complete or processing -> error; a new row starts queued.
AllowedTransitions ==
    {<<"queued", "processing">>, <<"processing", "complete">>, <<"processing", "error">>}
StatusMovesForward ==
    [][/\ \A a \in DOMAIN analyses \cap DOMAIN analyses' :
             analyses'[a].status # analyses[a].status =>
                 <<analyses[a].status, analyses'[a].status>> \in AllowedTransitions
       /\ \A a \in DOMAIN analyses' \ DOMAIN analyses :
             analyses'[a].status = "queued"]_vars

BothTerminalsReached ==
    \E a, b \in DOMAIN analyses :
        /\ analyses[a].status = "complete" /\ \A j \in JobsOf(a) : jobs[j].pc = "done"
        /\ analyses[b].status = "error" /\ \A j \in JobsOf(b) : jobs[j].pc = "done"

\* C5: a runLyra call that returns has, in that one step, inserted exactly
\* one analysis row (queued, for the document and the document's practice,
\* no report, no errorMessage), set the document to queued and returned
\* the new row's id, with the extraction scheduled but not yet started.
RunLyraInsertsQueuedAnalysis ==
    [][(IsCall("runLyra") /\ lastOp'.error = NoError) =>
          LET d == lastOp'.arg
              id == lastOp'.value
          IN  /\ lastOp'.caller \in Users
              /\ d \in DOMAIN documents
              /\ HasAccess(documents[d].practiceId, lastOp'.caller)
              /\ id \notin DOMAIN analyses
              /\ DOMAIN analyses' = DOMAIN analyses \cup {id}
              /\ analyses'[id] = [documentId |-> d,
                                  practiceId |-> documents[d].practiceId,
                                  status |-> "queued",
                                  report |-> Absent,
                                  errorMessage |-> Absent]
              /\ DOMAIN documents' = DOMAIN documents
              /\ documents'[d].status = "queued"
              /\ \A j \in 1..Len(jobs') :
                     jobs'[j].analysisId = id => jobs'[j].pc = "scheduled"]_vars

RunLyraReturned ==
    /\ lastOp.op = "runLyra"
    /\ lastOp.error = NoError
    /\ lastOp.value \in DOMAIN analyses
    /\ analyses[lastOp.value].status = "queued"
    /\ analyses[lastOp.value].documentId = lastOp.arg

\* C6: every analysis ever created has exactly one scheduled job, every job
\* carries the id of an analysis runLyra created, and a returning runLyra
\* call adds exactly one job, for the id it returns.
OneJobPerAnalysis ==
    /\ \A a \in 1..analysisCount : Cardinality(JobsOf(a)) = 1
    /\ \A j \in JobIds : jobs[j].analysisId \in 1..analysisCount
    /\ Len(jobs) = analysisCount
    /\ DOMAIN analyses \subseteq 1..analysisCount

TwoJobsScheduled ==
    /\ Len(jobs) = 2
    /\ jobs[1].analysisId # jobs[2].analysisId

\* C7: runLyra by a member on a document whose blob does not resolve to a
\* URL throws "Could not get document URL" and changes nothing: no
\* analysis row, no document change, no job.
UrlFailureChangesNothing ==
    [][(/\ IsCall("runLyra")
        /\ lastOp'.caller \in Users
        /\ lastOp'.arg \in DOMAIN documents
        /\ HasAccess(documents[lastOp'.arg].practiceId, lastOp'.caller)
        /\ documents[lastOp'.arg].storageId \notin storage)
       => /\ lastOp'.error = "Could not get document URL"
          /\ UNCHANGED store]_vars

UrlFailureSeen ==
    /\ lastOp.op = "runLyra"
    /\ lastOp.error = "Could not get document URL"
    /\ lastOp.arg \in DOMAIN documents
    /\ documents[lastOp.arg].storageId \notin storage

\* C8: every queued analysis has a scheduled job for its id that has not
\* started.
QueuedHasPendingJob ==
    \A a \in DOMAIN analyses :
        analyses[a].status = "queued" =>
            \E j \in JobsOf(a) : jobs[j].pc = "scheduled"

QueuedAnalysisExists ==
    \E a \in DOMAIN analyses :
        analyses[a].status = "queued" /\ JobsOf(a) # {}

\* C9: under fair execution of the jobs, every analysis eventually is
\* complete or error or is deleted, and no job ends with an uncaught error.
EveryAnalysisSettles ==
    /\ \A a \in AnalysisIds :
          [](a \in DOMAIN analyses =>
                <>(a \notin DOMAIN analyses \/ analyses[a].status \in Terminal))
    /\ [](\A j \in JobIds : jobs[j].pc # "crashed")

AnalysisSettled ==
    \E a \in DOMAIN analyses :
        /\ analyses[a].status \in Terminal
        /\ \A j \in JobsOf(a) : jobs[j].pc = "done"

\* C10: for a document whose content type is neither image/* nor
\* application/pdf, no job calls the model, a finished job leaves its
\* analysis in error with the message naming the content type, and once
\* all the document's jobs finished the document is in error.
Unsupported(ct) == ct[1] # "image" /\ ct # <<"application", "pdf">>
UnsupportedTypeEndsInError ==
    \A d \in DOMAIN documents :
        Unsupported(documents[d].contentType) =>
            /\ \A a \in AnalysesOf(d) : \A j \in JobsOf(a) :
                  /\ jobs[j].calls = 0
                  /\ jobs[j].pc # "calling"
                  /\ jobs[j].pc = "done" =>
                        /\ analyses[a].status = "error"
                        /\ analyses[a].errorMessage =
                               "Unsupported content type: "
                                   \o documents[d].contentType[1] \o "/"
                                   \o documents[d].contentType[2]
            /\ (/\ AnalysesOf(d) # {}
                /\ \A a \in AnalysesOf(d) : \A j \in JobsOf(a) : jobs[j].pc = "done")
               => documents[d].status = "error"

TextPlainFailed ==
    \E d \in DOMAIN documents, a \in DOMAIN analyses :
        /\ documents[d].contentType = <<"text", "plain">>
        /\ analyses[a].documentId = d
        /\ analyses[a].status = "error"
        /\ analyses[a].errorMessage = "Unsupported content type: text/plain"
        /\ documents[d].status = "error"
        /\ \A j \in JobsOf(a) : jobs[j].pc = "done" /\ jobs[j].calls = 0

\* C11: every request submitted to generateObject carries one of the five
\* listed media types.
ListedMediaTypes ==
    {"image/png", "image/jpeg", "image/gif", "image/webp", "application/pdf"}
RequestsUseListedMediaTypes ==
    \A j \in JobIds : jobs[j].calls > 0 => jobs[j].mediaType \in ListedMediaTypes

\* membership rows read directly from the table
MemberIn(u, p) ==
    \E i \in DOMAIN practiceMembers :
        practiceMembers[i].userId = u /\ practiceMembers[i].practiceId = p
MemberAnywhere(u) == \E i \in DOMAIN practiceMembers : practiceMembers[i].userId = u

\* C12: getDocument, deleteDocument and runLyra by an authenticated user on
\* an existing document of a practice the user is not a member of throw
\* "Access denied to this practice" and change nothing.
NonMemberIsDenied ==
    [][(/\ IsCall("getDocument") \/ IsCall("deleteDocument") \/ IsCall("runLyra")
        /\ lastOp'.caller \in Users
        /\ lastOp'.arg \in DOMAIN documents
        /\ ~MemberIn(lastOp'.caller, documents[lastOp'.arg].practiceId))
       => /\ lastOp'.error = "Access denied to this practice"
          /\ UNCHANGED store]_vars

NonMemberDeniedRun ==
    /\ lastOp.op = "runLyra"
    /\ lastOp.error = "Access denied to this practice"
    /\ lastOp.caller \in Users
    /\ lastOp.arg \in DOMAIN documents
    /\ ~MemberIn(lastOp.caller, documents[lastOp.arg].practiceId)

\* C13: without an identity, generateUploadUrl, createDocument,
\* deleteDocument, runLyra, getOrCreatePractice, getDocument and getAnalysis
\* throw "Not authenticated" and change nothing, whether or not the id
\* exists.
AuthRequiredOps ==
    {"generateUploadUrl", "createDocument", "deleteDocument", "runLyra",
     "getOrCreatePractice", "getDocument", "getAnalysis"}
UnauthenticatedIsRejected ==
    [][(/\ lastOp' # lastOp
        /\ lastOp'.op \in AuthRequiredOps
        /\ lastOp'.caller = "unauthenticated")
       => /\ lastOp'.error = "Not authenticated"
          /\ UNCHANGED store]_vars

UnauthenticatedGetAnalysis ==
    /\ lastOp.op = "getAnalysis"
    /\ lastOp.caller = "unauthenticated"
    /\ lastOp.error = "Not authenticated"
    /\ lastOp.arg \in DOMAIN analyses

\* C14: no row returned by listDocuments, getDocument, listAnalyses or
\* getAnalysis belongs to a practice the caller is not a member of.
ReadsStayInPractice ==
    /\ lastOp.op = "listDocuments" =>
          \A i \in DOMAIN lastOp.rows :
              lastOp.rows[i] \in DOMAIN documents =>
                  MemberIn(lastOp.caller, documents[lastOp.rows[i]].practiceId)
    /\ (lastOp.op = "getDocument" /\ lastOp.error = NoError
            /\ lastOp.value \in DOMAIN documents) =>
          MemberIn(lastOp.caller, documents[lastOp.value].practiceId)
    /\ lastOp.op = "listAnalyses" =>
          \A i \in DOMAIN lastOp.rows :
              lastOp.rows[i] \in DOMAIN analyses =>
                  MemberIn(lastOp.caller, analyses[lastOp.rows[i]].practiceId)
    /\ (lastOp.op = "getAnalysis" /\ lastOp.error = NoError
            /\ lastOp.value \in DOMAIN analyses) =>
          MemberIn(lastOp.caller, analyses[lastOp.value].practiceId)

ForeignDocumentWithheld ==
    /\ lastOp.op = "listDocuments"
    /\ MemberAnywhere(lastOp.caller)
    /\ lastOp.rows = <<>>
    /\ \E d \in DOMAIN documents : ~MemberIn(lastOp.caller, documents[d].practiceId)

\* C15: a returning getOrCreatePractice leaves the caller with exactly one
\* membership row and exactly one practice owned, and returns that
\* membership's practice; a membership, once there, never changes, so
\* every later call returns the same id and creates nothing.
OwnedIn(practiceTable, u) ==
    {p \in DOMAIN practiceTable : practiceTable[p].ownerId = u}
RowsIn(memberTable, u) ==
    {i \in DOMAIN memberTable : memberTable[i].userId = u}
RowsOfUser(u) == RowsIn(practiceMembers, u)
GetOrCreateIsIdempotent ==
    [][/\ \A u \in Users : \A i \in RowsOfUser(u) :
             /\ i \in DOMAIN practiceMembers'
             /\ practiceMembers'[i] = practiceMembers[i]
       /\ (IsCall("getOrCreatePractice") /\ lastOp'.error = NoError) =>
             /\ Cardinality(RowsIn(practiceMembers', lastOp'.caller)) = 1
             /\ Cardinality(OwnedIn(practices', lastOp'.caller)) = 1
             /\ \A i \in RowsIn(practiceMembers', lastOp'.caller) :
                    practiceMembers'[i].practiceId = lastOp'.value
             /\ MemberAnywhere(lastOp'.caller) => UNCHANGED store]_vars

SecondGetOrCreate ==
    /\ lastOp.op = "getOrCreatePractice"
    /\ lastOp.error = NoError
    /\ \E d \in DOMAIN documents : documents[d].uploadedBy = lastOp.caller

\* C16: every user has at most one membership row.
AtMostOneMembership ==
    \A u \in Users : Cardinality(RowsOfUser(u)) <= 1

RepeatedGetOrCreate ==
    /\ lastOp.op = "getOrCreatePractice"
    /\ lastOp.error = NoError
    /\ Len(practices) = 2
    /\ lastOp.value = 1

\* C17: a deleteDocument that returns has removed the document row, every
\* analysis that references it and its blob; a removed document never
\* comes back, and getDocument on it by an authenticated caller throws
\* "Document not found".
DeleteRemovesEverything ==
    [][/\ (IsCall("deleteDocument") /\ lastOp'.error = NoError) =>
             /\ lastOp'.arg \in DOMAIN documents
             /\ lastOp'.arg \notin DOMAIN documents'
             /\ \A a \in DOMAIN analyses' : analyses'[a].documentId # lastOp'.arg
             /\ documents[lastOp'.arg].storageId \notin storage'
       /\ \A d \in 1..docCount : d \notin DOMAIN documents => d \notin DOMAIN documents'
       /\ (IsCall("getDocument") /\ lastOp'.caller \in Users
               /\ lastOp'.arg \notin DOMAIN documents) =>
             lastOp'.error = "Document not found"]_vars

GetAfterDelete ==
    /\ lastOp.op = "getDocument"
    /\ lastOp.caller \in Users
    /\ lastOp.error = "Document not found"
    /\ lastOp.arg \in 1..docCount
    /\ analysisCount > 0

\* C18: every analysis row references an existing document, and no
\* internal mutation throws.
NoDanglingAnalysis ==
    /\ \A a \in DOMAIN analyses : analyses[a].documentId \in DOMAIN documents
    /\ \A j \in JobIds :
          jobs[j].pc # "crashed" /\ jobs[j].outcome # "patch of missing document"

DeletedWhileInFlight ==
    \E j \in JobIds :
        /\ jobs[j].pc \in {"started", "calling", "completing", "failing"}
        /\ jobs[j].analysisId \notin DOMAIN analyses
        /\ documents = <<>>

\* C19: an internal mutation called for an analysis that no longer exists
\* returns without error and changes no document, analysis or blob.
MissingAnalysisIsNoop ==
    [][\A j \in JobIds :
          (/\ jobs'[j].pc # jobs[j].pc
           /\ jobs[j].pc \in {"scheduled", "completing", "failing"}
           /\ jobs[j].analysisId \notin DOMAIN analyses)
          => /\ UNCHANGED <<documents, analyses, storage>>
             /\ jobs'[j].pc \in {"started", "done"}]_vars

JobRanOnMissingAnalysis ==
    \E j \in JobIds : jobs[j].missed /\ jobs[j].pc = "done"

\* C20: createDocument by a user with a membership inserts exactly one
\* document, status uploaded, in the caller's practice, uploadedBy the
\* caller; by an authenticated user without membership it throws "User is
\* not a member of any practice" and inserts nothing.
CreateDocumentEffect ==
    [][(IsCall("createDocument") /\ lastOp'.caller \in Users) =>
          IF MemberAnywhere(lastOp'.caller)
          THEN /\ lastOp'.error = NoError
               /\ lastOp'.value \notin DOMAIN documents
               /\ DOMAIN documents' = DOMAIN documents \cup {lastOp'.value}
               /\ \A d \in DOMAIN documents : documents'[d] = documents[d]
               /\ documents'[lastOp'.value].status = "uploaded"
               /\ documents'[lastOp'.value].uploadedBy = lastOp'.caller
               /\ MemberIn(lastOp'.caller, documents'[lastOp'.value].practiceId)
               /\ UNCHANGED <<analyses, practices, practiceMembers, storage, jobs>>
          ELSE /\ lastOp'.error = "User is not a member of any practice"
               /\ UNCHANGED store]_vars

DocumentCreatedBySecondPractice ==
    /\ lastOp.op = "createDocument"
    /\ lastOp.error = NoError
    /\ lastOp.value \in DOMAIN documents
    /\ documents[lastOp.value].status = "uploaded"
    /\ documents[lastOp.value].practiceId = 2
    /\ Len(practices) = 2

\* C21: the soft-fail queries never throw without an identity: listDocuments
\* and listAnalyses (whatever the document id) return the empty list and
\* getCurrentPractice returns null; listDocuments also returns the empty
\* list for an authenticated caller without membership.  (No step that
\* keeps lastOp changes a membership.)
SoftFailReadsReturnEmpty ==
    /\ (lastOp.op = "listDocuments"
            /\ (lastOp.caller = "unauthenticated" \/ ~MemberAnywhere(lastOp.caller)))
          => lastOp.error = NoError /\ lastOp.rows = <<>>
    /\ (lastOp.op = "listAnalyses" /\ lastOp.caller = "unauthenticated")
          => lastOp.error = NoError /\ lastOp.rows = <<>>
    /\ (lastOp.op = "getCurrentPractice" /\ lastOp.caller = "unauthenticated")
          => lastOp.error = NoError /\ lastOp.value = 0

UnauthenticatedListAnalyses ==
    /\ lastOp.op = "listAnalyses"
    /\ lastOp.caller = "unauthenticated"
    /\ lastOp.arg \in DOMAIN documents
    /\ \E a \in DOMAIN analyses : analyses[a].documentId = lastOp.arg
    /\ lastOp.rows = <<>>

\* C22: for an authenticated caller, getDocument and getAnalysis throw the
\* not-found error exactly when the id resolves to no row, the access-denied
\* error exactly when the row exists and the caller has no membership in its
\* practice, and return the row otherwise.  (No step that keeps lastOp adds
\* or removes a row or a membership.)
NotFoundOrAccessDeniedOrRow ==
    /\ (lastOp.op = "getDocument" /\ lastOp.caller \in Users) =>
          IF lastOp.arg \notin DOMAIN documents
          THEN lastOp.error = "Document not found"
          ELSE IF ~MemberIn(lastOp.caller, documents[lastOp.arg].practiceId)
          THEN lastOp.error = "Access denied to this practice"
          ELSE lastOp.error = NoError /\ lastOp.value = lastOp.arg
    /\ (lastOp.op = "getAnalysis" /\ lastOp.caller \in Users) =>
          IF lastOp.arg \notin DOMAIN analyses
          THEN lastOp.error = "Analysis not found"
          ELSE IF ~MemberIn(lastOp.caller, analyses[lastOp.arg].practiceId)
          THEN lastOp.error = "Access denied to this practice"
          ELSE lastOp.error = NoError /\ lastOp.value = lastOp.arg

GetAnalysisDeniedToOtherPractice ==
    /\ lastOp.op = "getAnalysis"
    /\ lastOp.caller \in Users
    /\ lastOp.error = "Access denied to this practice"
    /\ lastOp.arg \in DOMAIN analyses
    /\ MemberAnywhere(lastOp.caller)

\* C23: runLyra has no guard on the document's status: by a member, on an
\* existing document whose blob resolves, it returns whatever the status,
\* adds a queued row under a fresh id and a scheduled job for that id, and
\* leaves the earlier rows and jobs as they were, so that two calls in a row
\* leave two distinct non-terminal rows and two distinct jobs.
DocumentStatuses == {"uploaded", "queued", "processing", "complete", "error"}
RunLyraIgnoresStatus ==
    [][(/\ IsCall("runLyra")
        /\ lastOp'.caller \in Users
        /\ lastOp'.arg \in DOMAIN documents
        /\ MemberIn(lastOp'.caller, documents[lastOp'.arg].practiceId)
        /\ documents[lastOp'.arg].storageId \in storage)
       => /\ documents[lastOp'.arg].status \in DocumentStatuses
          /\ lastOp'.error = NoError
          /\ lastOp'.value \notin DOMAIN analyses
          /\ lastOp'.value \in DOMAIN analyses'
          /\ analyses'[lastOp'.value].status = "queued"
          /\ analyses'[lastOp'.value].documentId = lastOp'.arg
          /\ \A a \in DOMAIN analyses : a \in DOMAIN analyses' /\ analyses'[a] = analyses[a]
          /\ Len(jobs') = Len(jobs) + 1
          /\ jobs'[Len(jobs')].analysisId = lastOp'.value
          /\ jobs'[Len(jobs')].pc = "scheduled"
          /\ \A j \in JobIds : jobs'[j] = jobs[j] /\ jobs[j].analysisId # lastOp'.value]_vars

TwoRunsInARow ==
    /\ lastOp.op = "runLyra"
    /\ lastOp.error = NoError
    /\ Len(jobs) = 2
    /\ jobs[1].pc = "scheduled" /\ jobs[2].pc = "scheduled"
    /\ jobs[1].analysisId # jobs[2].analysisId
    /\ \A j \in JobIds :
          /\ jobs[j].analysisId \in DOMAIN analyses
          /\ analyses[jobs[j].analysisId].status = "queued"
          /\ analyses[jobs[j].analysisId].documentId = lastOp.arg

\* C24: last write wins on the document's status: a step that creates or
\* changes analysis rows of a document leaves the document with the status
\* that step gave those rows, and a step that changes no analysis of the
\* document leaves its status alone; so the status of a document that has
\* analyses is always the one written by the last transition of any of
\* them, in whatever order the jobs' steps interleave.
WrittenIn(d, before, after) ==
    {a \in DOMAIN after : /\ after[a].documentId = d
                          /\ (a \notin DOMAIN before \/ after[a] # before[a])}
LastWriteWins ==
    [][\A d \in DOMAIN documents \cap DOMAIN documents' :
          /\ \A a \in WrittenIn(d, analyses, analyses') :
                documents'[d].status = analyses'[a].status
          /\ WrittenIn(d, analyses, analyses') = {} =>
                documents'[d].status = documents[d].status]_vars

OlderJobWroteLast ==
    \E d \in DOMAIN documents : \E a, b \in DOMAIN analyses :
        /\ a < b
        /\ analyses[a].documentId = d /\ analyses[b].documentId = d
        /\ analyses[b].status = "processing"
        /\ analyses[a].status = "complete"
        /\ documents[d].status = "complete"

\* C25: no automatic retry: generateObject is called at most once per
\* analysis over the whole run, a job never goes back to an earlier
\* position, and a new analysis or a new job appears only in a returning
\* runLyra call, under an id never used before.
PcRank(pc) ==
    CASE pc = "scheduled" -> 0
      [] pc = "started" -> 1
      [] pc = "calling" -> 2
      [] pc = "completing" -> 3
      [] pc = "failing" -> 4
      [] OTHER -> 5
NoAutomaticRetry ==
    [][/\ \A j \in 1..Len(jobs') :
             /\ jobs'[j].calls <= 1
             /\ \A k \in 1..Len(jobs') :
                   (k # j /\ jobs'[k].analysisId = jobs'[j].analysisId)
                       => ~(jobs'[j].calls > 0 /\ jobs'[k].calls > 0)
       /\ \A j \in JobIds :
             /\ j \in 1..Len(jobs')
             /\ jobs'[j].analysisId = jobs[j].analysisId
             /\ jobs'[j].pc # jobs[j].pc => PcRank(jobs'[j].pc) > PcRank(jobs[j].pc)
       /\ (\/ Len(jobs') # Len(jobs)
           \/ analysisCount' # analysisCount
           \/ DOMAIN analyses' \ DOMAIN analyses # {})
          => /\ IsCall("runLyra")
             /\ lastOp'.error = NoError
             /\ lastOp'.value \notin 1..analysisCount
             /\ DOMAIN analyses' \ DOMAIN analyses = {lastOp'.value}
             /\ Len(jobs') = Len(jobs) + 1
             /\ jobs'[Len(jobs')].analysisId = lastOp'.value]_vars

RerunByUserAfterFailure ==
    \E a, b \in DOMAIN analyses :
        /\ a < b
        /\ analyses[a].documentId = analyses[b].documentId
        /\ analyses[a].status = "error"
        /\ analyses[b].status = "error"
        /\ \A j \in JobsOf(a) \cup JobsOf(b) : jobs[j].calls = 1 /\ jobs[j].pc = "done"

\* C26: when generateObject returned a report and the analysis still
\* exists, the completeAnalysis step leaves the analysis complete with
\* exactly that report and, in the same step, the document complete; a
\* complete row keeps its report afterwards.
ReportStoredVerbatim ==
    [][/\ \A j \in JobIds :
             /\ (jobs[j].pc = "calling" /\ jobs'[j].pc = "completing")
                    => jobs'[j].outcome \in Reports
             /\ (/\ jobs[j].pc = "completing"
                 /\ jobs'[j].pc # "completing"
                 /\ jobs[j].analysisId \in DOMAIN analyses)
                => LET a == jobs[j].analysisId
                       d == analyses[a].documentId
                   IN  /\ jobs[j].outcome \in Reports
                       /\ a \in DOMAIN analyses'
                       /\ analyses'[a].status = "complete"
                       /\ analyses'[a].report = jobs[j].outcome
                       /\ d \in DOMAIN documents'
                       /\ documents'[d].status = "complete"
                       /\ jobs'[j].pc = "done"
       /\ \A a \in DOMAIN analyses \cap DOMAIN analyses' :
             analyses[a].status = "complete" => analyses'[a] = analyses[a]]_vars

ReportBStored ==
    \E a \in DOMAIN analyses :
        /\ analyses[a].status = "complete"
        /\ analyses[a].report = "reportB"
        /\ analyses[a].documentId \in DOMAIN documents
        /\ documents[analyses[a].documentId].status = "complete"
        /\ \A j \in JobsOf(a) : jobs[j].pc = "done" /\ jobs[j].calls = 1

\* C27: a failure inside the job after its first mutation is caught: the
\* job goes on to failAnalysis with the message of the thrown Error (or
\* "Unknown error occurred" for a thrown value that is no Error), which
\* leaves the analysis, if it still exists, in error with that message and
\* the document in error; the job never ends with an uncaught error, no
\* client call's result changes with a job step, and the job exists only
\* because a runLyra call returned its analysis id.
CapturedModelMessages ==
    {IF f.isError THEN f.message ELSE "Unknown error occurred" : f \in ModelFailures}
FailureIsCaptured ==
    [][/\ \A j \in JobIds :
             /\ (jobs[j].pc = "calling" /\ jobs'[j].pc = "failing")
                    => jobs'[j].outcome \in CapturedModelMessages
             /\ (jobs[j].pc # "failing" /\ jobs'[j].pc = "failing")
                    => jobs'[j].outcome # Absent
             /\ (/\ jobs[j].pc = "failing"
                 /\ jobs'[j].pc # "failing"
                 /\ jobs[j].analysisId \in DOMAIN analyses)
                => LET a == jobs[j].analysisId
                       d == analyses[a].documentId
                   IN  /\ jobs[j].outcome # Absent
                       /\ a \in DOMAIN analyses'
                       /\ analyses'[a].status = "error"
                       /\ analyses'[a].errorMessage = jobs[j].outcome
                       /\ d \in DOMAIN documents'
                       /\ documents'[d].status = "error"
                       /\ jobs'[j].pc = "done"
             /\ jobs'[j].pc # "crashed"
             /\ jobs'[j] # jobs[j] => lastOp' = lastOp
       /\ Len(jobs') > Len(jobs)
             => /\ lastOp'.op = "runLyra"
                /\ lastOp'.error = NoError
                /\ jobs'[Len(jobs')].analysisId = lastOp'.value]_vars

UnknownErrorCaptured ==
    \E a \in DOMAIN analyses :
        /\ analyses[a].status = "error"
        /\ analyses[a].errorMessage = "Unknown error occurred"
        /\ documents[analyses[a].documentId].status = "error"
        /\ \A j \in JobsOf(a) : jobs[j].pc = "done" /\ jobs[j].calls = 1

\* C28: listAnalyses by a member of the document's practice returns exactly
\* the analysis rows that reference the document, each once, newest first
\* (ids are allocated in creation order), so the first element is the most
\* recently created analysis.  (No step that keeps lastOp adds or removes
\* an analysis.)
ListAnalysesNewestFirst ==
    (/\ lastOp.op = "listAnalyses"
     /\ lastOp.caller \in Users
     /\ lastOp.arg \in DOMAIN documents
     /\ MemberIn(lastOp.caller, documents[lastOp.arg].practiceId))
    => LET rows == lastOp.rows
           referencing == {a \in DOMAIN analyses : analyses[a].documentId = lastOp.arg}
       IN  /\ lastOp.error = NoError
           /\ {rows[i] : i \in DOMAIN rows} = referencing
           /\ \A i, k \in DOMAIN rows : i < k => rows[i] > rows[k]
           /\ rows # <<>> => \A a \in referencing : a <= rows[1]

TwoAnalysesListed ==
    /\ lastOp.op = "listAnalyses"
    /\ lastOp.caller \in Users
    /\ lastOp.error = NoError
    /\ lastOp.rows = <<2, 1>>

\* C29: while a document exists, no step changes its practiceId, storageId,
\* filename, contentType, sizeBytes or uploadedBy: only its status changes.
DocumentFieldsAreFixed ==
    [][\A d \in DOMAIN documents \cap DOMAIN documents' :
          /\ documents'[d].practiceId = documents[d].practiceId
          /\ documents'[d].storageId = documents[d].storageId
          /\ documents'[d].filename = documents[d].filename
          /\ documents'[d].contentType = documents[d].contentType
          /\ documents'[d].sizeBytes = documents[d].sizeBytes
          /\ documents'[d].uploadedBy = documents[d].uploadedBy]_vars

DocumentWentThroughStatuses ==
    \E d \in DOMAIN documents :
        /\ documents[d].status = "error"
        /\ documents[d].uploadedBy = "u2"
        /\ documents[d].contentType = <<"image", "png">>
        /\ \E a \in DOMAIN analyses :
              analyses[a].documentId = d /\ analyses[a].status = "complete"

\* C30: an analysis row disappears only in a deleteDocument step that also
\* removes the document it references.
AnalysisGoesOnlyWithDocument ==
    [][\A a \in DOMAIN analyses \ DOMAIN analyses' :
          /\ IsCall("deleteDocument")
          /\ lastOp'.arg = analyses[a].documentId
          /\ analyses[a].documentId \in DOMAIN documents
          /\ analyses[a].documentId \notin DOMAIN documents']_vars

CascadeRemovedTwoAnalyses ==
    /\ lastOp.op = "deleteDocument"
    /\ lastOp.error = NoError
    /\ analysisCount = 2
    /\ DOMAIN analyses = {}
    /\ DOMAIN documents = {}

\* C31: a runLyra call, returning or throwing, leaves every analysis row
\* that existed before it as it was, earlier analyses of the same document
\* included, and changes no document other than the one it was called on.
RunLyraFrame ==
    [][IsCall("runLyra") =>
          /\ \A a \in DOMAIN analyses :
                a \in DOMAIN analyses' /\ analyses'[a] = analyses[a]
          /\ DOMAIN documents' = DOMAIN documents
          /\ \A d \in DOMAIN documents :
                d # lastOp'.arg => documents'[d] = documents[d]]_vars

RerunBesideOtherDocument ==
    /\ lastOp.op = "runLyra"
    /\ lastOp.error = NoError
    /\ lastOp.value \in DOMAIN analyses
    /\ analyses[lastOp.value].status = "queued"
    /\ \E a \in DOMAIN analyses :
          /\ a # lastOp.value
          /\ analyses[a].documentId = lastOp.arg
          /\ analyses[a].status = "complete"
    /\ \E d \in DOMAIN documents : d # lastOp.arg /\ documents[d].status = "uploaded"

\* C32: deleteDocument has no guard on the document's status: by a member,
\* on an existing document whose blob exists, it returns whatever the
\* status (queued and processing with a job in flight included) and removes
\* the document and its analyses; every later step of a job whose analysis
\* is gone changes no document, analysis or blob and ends without error,
\* and no deleted document or analysis comes back.
DeleteIgnoresStatus ==
    [][/\ (/\ IsCall("deleteDocument")
           /\ lastOp'.caller \in Users
           /\ lastOp'.arg \in DOMAIN documents
           /\ MemberIn(lastOp'.caller, documents[lastOp'.arg].practiceId)
           /\ documents[lastOp'.arg].storageId \in storage)
          => /\ documents[lastOp'.arg].status \in DocumentStatuses
             /\ lastOp'.error = NoError
             /\ lastOp'.arg \notin DOMAIN documents'
             /\ \A a \in DOMAIN analyses' : analyses'[a].documentId # lastOp'.arg
       /\ \A j \in JobIds :
             (jobs'[j] # jobs[j] /\ jobs[j].analysisId \notin DOMAIN analyses)
                => /\ UNCHANGED <<documents, analyses, storage>>
                   /\ jobs'[j].pc # "crashed"
       /\ \A d \in 1..docCount : d \notin DOMAIN documents => d \notin DOMAIN documents'
       /\ \A a \in 1..analysisCount :
             a \notin DOMAIN analyses => a \notin DOMAIN analyses']_vars

JobOutlivedItsDocument ==
    /\ \E j \in JobIds :
          /\ jobs[j].pc = "done"
          /\ jobs[j].missed
          /\ jobs[j].calls = 1
          /\ jobs[j].analysisId \notin DOMAIN analyses
    /\ Cardinality(DOMAIN documents) = 1

\* C33: when runLyra is called on a document only while its status is
\* uploaded or error, every document has at most one analysis that is
\* queued or processing.
ActiveAnalyses(d) ==
    {a \in DOMAIN analyses : /\ analyses[a].documentId = d
                             /\ analyses[a].status \in {"queued", "processing"}}
AtMostOneActiveAnalysis ==
    \A d \in DOMAIN documents : Cardinality(ActiveAnalyses(d)) <= 1

SecondRunAfterError ==
    \E d \in DOMAIN documents : \E a, b \in DOMAIN analyses :
        /\ a < b
        /\ analyses[a].documentId = d /\ analyses[b].documentId = d
        /\ analyses[a].status = "error"
        /\ analyses[b].status = "processing"
        /\ documents[d].status = "processing"

\* C34: when runLyra is never called on a document while one of its
\* analyses is queued or processing, every document that has analyses
\* carries the status of the analysis created last.
IdleRunsMirrorLatest ==
    \A d \in DOMAIN documents : \A a \in DOMAIN analyses :
        (/\ analyses[a].documentId = d
         /\ \A b \in DOMAIN analyses : analyses[b].documentId = d => b <= a)
        => documents[d].status = analyses[a].status

RerunOfCompleteDocument ==
    \E d \in DOMAIN documents : \E a, b \in DOMAIN analyses :
        /\ a < b
        /\ analyses[a].documentId = d /\ analyses[b].documentId = d
        /\ analyses[a].status = "complete"
        /\ analyses[b].status = "error"
        /\ documents[d].status = "error"

\* C35: a document is uploaded exactly while no analysis row references it,
\* and a document that left uploaded never returns to it.
UploadedIffNoAnalysis ==
    [][\A d \in DOMAIN documents' :
          /\ documents'[d].status = "uploaded"
                <=> ~\E a \in DOMAIN analyses' : analyses'[a].documentId = d
          /\ (d \in DOMAIN documents /\ documents[d].status # "uploaded")
                => documents'[d].status # "uploaded"]_vars

RequeuedAfterError ==
    \E d \in DOMAIN documents : \E a, b \in DOMAIN analyses :
        /\ a < b
        /\ analyses[a].documentId = d /\ analyses[b].documentId = d
        /\ analyses[a].status = "error"
        /\ analyses[b].status = "queued"
        /\ documents[d].status = "queued"

\* C36: every analysis row carries the practiceId of the document it
\* references, so the membership test of getAnalysis (on the analysis's
\* practice) and that of getDocument (on the document's practice) admit the
\* same users.
AnalysisInDocumentsPractice ==
    \A a \in DOMAIN analyses :
        /\ analyses[a].documentId \in DOMAIN documents
        /\ analyses[a].practiceId = documents[analyses[a].documentId].practiceId
        /\ \A u \in Users :
              MemberIn(u, analyses[a].practiceId)
                  <=> MemberIn(u, documents[analyses[a].documentId].practiceId)

AnalysisInSecondPractice ==
    \E a \in DOMAIN analyses :
        /\ analyses[a].practiceId = 2
        /\ analyses[a].documentId \in DOMAIN documents
        /\ documents[analyses[a].documentId].practiceId = 2
        /\ Len(practices) = 2

\* C37: every membership row references an existing practice, so that
\* getOrCreatePractice never throws "Practice not found"; every practice
\* has exactly one owner membership, held by the practice's ownerId; no
\* state has a practice without its owner row (both are inserted in one
\* step).
OwnerRows(p) ==
    {i \in DOMAIN practiceMembers : /\ practiceMembers[i].practiceId = p
                                    /\ practiceMembers[i].role = "owner"}
EveryPracticeHasItsOwner ==
    /\ \A i \in DOMAIN practiceMembers : practiceMembers[i].practiceId \in DOMAIN practices
    /\ \A p \in DOMAIN practices :
          /\ Cardinality(OwnerRows(p)) = 1
          /\ \A i \in OwnerRows(p) : practiceMembers[i].userId = practices[p].ownerId
    /\ Len(practiceMembers) = Len(practices)
    /\ lastOp.error # "Practice not found"

BothUsersOwnAPractice ==
    /\ Len(practices) = 2
    /\ practices[1].ownerId # practices[2].ownerId
    /\ lastOp.op = "getOrCreatePractice"
    /\ lastOp.error = NoError
    /\ lastOp.value = 2

====
